---- MODULE Spec2Model ----
(***************************************************************************)
(* Conway's Game of Life: the two Universe implementations.                *)
(*                                                                         *)
(*   unbounded  rust_game_of_life/src/universe.rs: a HashMap from Position *)
(*              to Cell; a key's presence is the cell being alive.         *)
(*   bounded    src/universe.rs: a Vec<Vec<CellData>> grid whose neighbour *)
(*              lookups wrap around the edges.                             *)
(*                                                                         *)
(* The two are separate programs. A behaviour of this module is a          *)
(* behaviour of one of them, selected by `variant`; the other program's    *)
(* variable keeps its empty value.                                         *)
(*                                                                         *)
(* A Position is a pair <<x, y>>. The unbounded map is modelled by its key *)
(* set. Where tick runs, coordinates stay far from the limits of i32, so   *)
(* the additions in Position::neighbors do not overflow. SpecBounds takes  *)
(* coordinates from the whole range of i32 and only calls bounds; the      *)
(* arithmetic of Bounds is modelled with its overflow.                     *)
(*                                                                         *)
(* SpecEntities follows the Entity stored with each key, and the spawn and  *)
(* despawn commands issued for cells; elsewhere `entity` and `world` keep   *)
(* their empty values.                                                     *)
(*                                                                         *)
(* SpecDriver is the host of the unbounded universe (src/main.rs): frames  *)
(* in which the systems `universe` and `draw_cells` run in either order.   *)
(***************************************************************************)
EXTENDS Integers, Sequences, FiniteSets

VARIABLES
    variant,   \* "unbounded" | "bounded": which Universe this behaviour runs
    cells,     \* unbounded Universe.cells: the set of keys of the HashMap
    grid,      \* bounded Universe.cells: grid[y][x], 0-indexed, Dead or Alive
    size,      \* bounded Universe.size, the stored field
    sim_config,  \* SimulationConfig: allowed_neighbors, allowed_neighbors_for_birth,
               \* paused
    seed,      \* history: the universe (cells or grid) as constructed
    ticks,     \* history: the number of tick calls made
    toggled,   \* history: the positions passed to toggle_cells_at, in order
    returned,  \* how the last call ended: the Bounds it returned, or its panic
    generated, \* history: the constructor called and its arguments
    mouse,     \* Input<MouseButton> for the left button: pressed, just_released
    drawn_positions,  \* DrawnPositions
    frame,     \* the frame under way: the systems that have run in it
    press,     \* history: what draw_cells has done since it last saw a release
    entity,    \* unbounded Universe.cells: the Entity of the Cell stored at a key
    world      \* the Commands issued for cell entities: spawns and despawns

\* what the calls of the core leave behind them
call == <<returned, generated>>
\* the resources of the host driver
host == <<mouse, drawn_positions, frame, press>>

\* the entities of the cells
ecs == <<entity, world>>

vars == <<variant, cells, grid, size, sim_config, seed, ticks, toggled, call, host, ecs>>

-----------------------------------------------------------------------------
(* Bounds of the model *)

\* The unbounded universe is ticked while its cells lie in (0..MaxX) x (0..MaxY)
MaxX == 2
MaxY == 1
\* ... and while it holds at most MaxLive cells.
MaxLive == 3
\* Bounded grids have at most MaxSlots slots: every width and height whose
\* product is at most MaxSlots.
MaxSlots == 6
\* At most MaxToggles positions are toggled in a run of edits.
MaxToggles == 2
\* Patterns are placed at anchors in (0..MaxAnchor) x (0..MaxAnchor), on grids
\* of up to MaxGrid rows and columns, and run for MaxGen generations.
MaxAnchor == 2
MaxGrid == 5
MaxGen == 4
\* The unbounded generate is given sizes of up to MaxSide by MaxSide.
MaxSide == 3
\* The app runs for MaxFrames frames, the cursor over the cells (0..MaxCursor, 0).
MaxFrames == 4
MaxCursor == 1
\* A universe whose entities are followed is ticked up to MaxTicks times.
MaxTicks == 2

-----------------------------------------------------------------------------
(* Program constants *)

\* enum CellState { Dead = 0, Alive = 1 }
Dead == 0
Alive == 1

\* SimulationConfig::default(): bound_padding
bound_padding == 5

\* SimulationConfig::default(): allowed_neighbors, allowed_neighbors_for_birth
DefaultAllowedNeighbors == {2, 3}
DefaultAllowedNeighborsForBirth == {3}

-----------------------------------------------------------------------------
(* Sequences as the code uses them *)

\* Vec::contains
Contains(s, e) == \E i \in 1..Len(s) : s[i] = e

\* The orders in which a HashMap with key set S may be iterated.
Orders(S) ==
    {o \in [1..Cardinality(S) -> S] : \A i, j \in 1..Cardinality(S) : o[i] = o[j] => i = j}

-----------------------------------------------------------------------------
(* Unbounded variant: rust_game_of_life *)

\* Mutant of neighbors: the position itself is not left out.
neighbors_with_self(pos) ==
    LET x == pos[1]
        y == pos[2]
    IN  <<<<x - 1, y - 1>>, <<x, y - 1>>, <<x + 1, y - 1>>,
          <<x - 1, y>>,     <<x, y>>,     <<x + 1, y>>,
          <<x - 1, y + 1>>, <<x, y + 1>>, <<x + 1, y + 1>>>>

\* Position::neighbors: y from y-1 to y+1, x from x-1 to x+1, the position
\* itself left out, in the order the Vec is pushed.
neighbors(pos) ==
    LET x == pos[1]
        y == pos[2]
        all == <<<<x - 1, y - 1>>, <<x, y - 1>>, <<x + 1, y - 1>>,
                 <<x - 1, y>>,     <<x, y>>,     <<x + 1, y>>,
                 <<x - 1, y + 1>>, <<x, y + 1>>, <<x + 1, y + 1>>>>
    IN  SelectSeq(all, LAMBDA p : ~(p[1] = x /\ p[2] = y))

RECURSIVE CountPresent_short(_, _, _)
\* Mutant of CountPresent: the loop stops one neighbour early.
CountPresent_short(cs, nbs, i) ==
    IF i >= Len(nbs) THEN 0
    ELSE (IF nbs[i] \in cs THEN 1 ELSE 0) + CountPresent_short(cs, nbs, i + 1)

RECURSIVE CountPresent(_, _, _)
\* the counting loop of live_neighbor_count over nbs[i..]
CountPresent(cs, nbs, i) ==
    IF i > Len(nbs) THEN 0
    ELSE (IF nbs[i] \in cs THEN 1 ELSE 0) + CountPresent(cs, nbs, i + 1)

\* Universe::live_neighbor_count
live_neighbor_count(cs, pos) == CountPresent(cs, neighbors(pos), 1)

\* Mutant of tick_snapshot: the counts are taken from the map being built.
tick_snapshot_next(cs, acc) == acc.next

\* The map a neighbour count is taken from while tick builds `next`:
\* self.live_neighbor_count reads self.cells, the pre-tick map.
tick_snapshot(cs, acc) == cs

RECURSIVE tick_neighbors(_, _, _, _, _)
\* tick's inner loop over pos.neighbors()[i..]; acc is [next, visited].
tick_neighbors(cs, allowed_neighbors_for_birth, nbs, i, acc) ==
    IF i > Len(nbs) THEN acc
    ELSE LET neighbor_pos == nbs[i]
         IN  IF Contains(acc.visited, neighbor_pos) \/ neighbor_pos \in cs
             THEN tick_neighbors(cs, allowed_neighbors_for_birth, nbs, i + 1, acc)
             ELSE LET neighbor_live_neighbors ==
                          live_neighbor_count(tick_snapshot(cs, acc), neighbor_pos)
                      is_born == /\ neighbor_pos \notin cs
                                 /\ neighbor_live_neighbors \in allowed_neighbors_for_birth
                  IN  tick_neighbors(cs, allowed_neighbors_for_birth, nbs, i + 1,
                          [next    |-> IF is_born THEN acc.next \cup {neighbor_pos}
                                                  ELSE acc.next,
                           visited |-> Append(acc.visited, neighbor_pos)])

RECURSIVE tick_cells(_, _, _, _, _, _)
\* tick's outer loop over self.cells.iter(), in the order `order`, from order[i].
tick_cells(cs, allowed_neighbors, allowed_neighbors_for_birth, order, i, acc) ==
    IF i > Len(order) THEN acc
    ELSE LET pos == order[i]
         IN  IF Contains(acc.visited, pos)
             THEN tick_cells(cs, allowed_neighbors, allowed_neighbors_for_birth,
                             order, i + 1, acc)
             ELSE LET live_neighbors == live_neighbor_count(tick_snapshot(cs, acc), pos)
                      dies == live_neighbors \notin allowed_neighbors
                      after == tick_neighbors(cs, allowed_neighbors_for_birth,
                                   neighbors(pos), 1,
                                   [next    |-> IF dies THEN acc.next \ {pos} ELSE acc.next,
                                    visited |-> acc.visited])
                  IN  tick_cells(cs, allowed_neighbors, allowed_neighbors_for_birth,
                          order, i + 1,
                          [next    |-> after.next,
                           visited |-> Append(after.visited, pos)])

\* Universe::tick, iterating the map in the order `order`: the map it leaves
\* in self.cells.
tick(cs, allowed_neighbors, allowed_neighbors_for_birth, order) ==
    tick_cells(cs, allowed_neighbors, allowed_neighbors_for_birth, order, 1,
               [next |-> cs, visited |-> <<>>]).next

RECURSIVE toggle_cells_at_insert_only(_, _, _)
\* Mutant of toggle_cells_at: a position already alive is left in the map.
toggle_cells_at_insert_only(cs, positions, i) ==
    IF i > Len(positions) THEN cs
    ELSE toggle_cells_at_insert_only(cs \cup {positions[i]}, positions, i + 1)

RECURSIVE toggle_cells_at(_, _, _)
\* Universe::toggle_cells_at over positions[i..]
toggle_cells_at(cs, positions, i) ==
    IF i > Len(positions) THEN cs
    ELSE LET pos == positions[i]
         IN  toggle_cells_at(IF pos \in cs THEN cs \ {pos} ELSE cs \cup {pos},
                             positions, i + 1)

\* Mutant of glider: the last offset is one row off.
glider_one_off == <<<<0, 0>>, <<1, 1>>, <<1, 2>>, <<2, 0>>, <<2, 2>>>>

\* CellPattern::glider
glider == <<<<0, 0>>, <<1, 1>>, <<1, 2>>, <<2, 0>>, <<2, 1>>>>

\* An f32 between -1 and 2 is modelled by the number of tenths in it: 4 is 0.4
\* and 10 is 1.0. random::<f32>() is uniform over [0, 1): the draws of the
\* model are its least value and one close to its greatest.
Draws == {0, 9}

\* (n as f32 / 2.0) as i32, for an n that f32 holds exactly: the cast rounds
\* towards zero
half(n) == IF n >= 0 THEN n \div 2 ELSE 0 - ((0 - n) \div 2)

\* Mutant of lives: the comparison is turned round.
lives_inverted(draw, life_chance) == draw > life_chance

\* let lives = random::<f32>() < life_chance, for the value `draw` drawn
lives(draw, life_chance) == draw < life_chance

\* The positions generate draws for, in the order of its loops: y from
\* -half_size.height up to half_size.height - 1, x likewise over the width
generate_positions(sz) ==
    LET half_size == [width |-> half(sz.width), height |-> half(sz.height)]
        across == IF half_size.width > 0 THEN 2 * half_size.width ELSE 0
        down == IF half_size.height > 0 THEN 2 * half_size.height ELSE 0
    IN  [k \in 1..(across * down) |->
            <<((k - 1) % across) - half_size.width,
              ((k - 1) \div across) - half_size.height>>]

\* Universe::generate, with draws[k] the value drawn for the k-th position
generate(sz, life_chance, draws) ==
    LET positions == generate_positions(sz)
    IN  {positions[k] : k \in {j \in 1..Len(positions) : lives(draws[j], life_chance)}}

\* std::i32::MAX
MAX == 2147483647

\* The Bounds that bounds() starts from
bounds_initial == [top |-> 0 - MAX, bottom |-> MAX, left |-> MAX, right |-> 0 - MAX]

RECURSIVE bounds_cells(_, _, _)
\* The loop of bounds over the entries order[i..] of the map; b is the
\* Bounds so far. The four tests are made one after the other on each entry.
bounds_cells(order, i, b) ==
    IF i > Len(order) THEN b
    ELSE LET pos == order[i]
             b1 == IF pos[2] > b.top THEN [b EXCEPT !.top = pos[2]] ELSE b
             b2 == IF pos[2] < b1.bottom THEN [b1 EXCEPT !.bottom = pos[2]] ELSE b1
             b3 == IF pos[1] < b2.left THEN [b2 EXCEPT !.left = pos[1]] ELSE b2
             b4 == IF pos[1] > b3.right THEN [b3 EXCEPT !.right = pos[1]] ELSE b3
         IN  bounds_cells(order, i + 1, b4)

\* Universe::bounds, iterating the map in the order `order`
bounds(order) == bounds_cells(order, 1, bounds_initial)

\* i32 arithmetic. An operation whose result is outside i32 panics in a build
\* with overflow checks and wraps round in a build without them: `value` is
\* the wrapped result, `overflow` tells whether the result was outside i32.
\* The wrapped result is reached without leaving i32 on the way.
i32_add(a, b) ==
    IF b > 0 /\ a > MAX - b
    THEN [value |-> (a - MAX - 1) + (b - MAX - 1), overflow |-> TRUE]
    ELSE IF b < 0 /\ a < (0 - MAX - 1) - b
    THEN [value |-> (a + MAX + 1) + (b + MAX + 1), overflow |-> TRUE]
    ELSE [value |-> a + b, overflow |-> FALSE]

i32_sub(a, b) ==
    IF b < 0 /\ a > MAX + b
    THEN [value |-> (a - MAX - 1) - (b + MAX + 1), overflow |-> TRUE]
    ELSE IF b > 0 /\ a < (0 - MAX - 1) + b
    THEN [value |-> (a + MAX + 1) + ((MAX - b) + 1), overflow |-> TRUE]
    ELSE [value |-> a - b, overflow |-> FALSE]

\* i32::abs: the least i32 has no absolute value in i32 and is its own wrap
i32_abs(a) ==
    IF a = 0 - MAX - 1 THEN [value |-> a, overflow |-> TRUE]
    ELSE [value |-> IF a < 0 THEN 0 - a ELSE a, overflow |-> FALSE]

\* Bounds::with_padding
with_padding(b, padding) ==
    LET top == i32_add(b.top, padding)
        right == i32_add(b.right, padding)
        bottom == i32_sub(b.bottom, padding)
        left == i32_sub(b.left, padding)
    IN  [value |-> [top |-> top.value, right |-> right.value,
                    bottom |-> bottom.value, left |-> left.value],
         overflow |-> top.overflow \/ right.overflow \/ bottom.overflow \/ left.overflow]

\* Bounds::size
bounds_size(b) ==
    LET across == i32_sub(b.left, b.right)
        up == i32_sub(b.top, b.bottom)
        width == i32_abs(across.value)
        height == i32_abs(up.value)
    IN  [value |-> [width |-> width.value, height |-> height.value],
         overflow |-> across.overflow \/ up.overflow \/ width.overflow \/ height.overflow]

\* The components spawn_cell_entity gives the entity of a cell
CellComponents == {"Cell", "SpriteBundle", "Position", "SizeFloat"}

\* HashMap::insert and HashMap::remove on the map m from Position to Entity
insert(m, pos, e) == [p \in (DOMAIN m) \cup {pos} |-> IF p = pos THEN e ELSE m[p]]
remove(m, pos) == [p \in (DOMAIN m) \ {pos} |-> m[p]]

\* commands.spawn().id(): an Entity that no spawn has returned before, w.next,
\* with no component
spawn(w) ==
    [w EXCEPT !.next = @ + 1,
              !.spawned = Append(@, [entity |-> w.next, components |-> {}, pos |-> <<>>])]

\* Universe::spawn_cell_entity(commands, pos): the Entity is w.next
spawn_cell_entity(w, pos) ==
    [w EXCEPT !.next = @ + 1,
              !.spawned = Append(@, [entity |-> w.next, components |-> CellComponents,
                                     pos |-> pos])]

\* Universe::despawn_cell_entity(commands, entity)
despawn_cell_entity(w, e) == [w EXCEPT !.despawned = Append(@, e)]

RECURSIVE generate_cells(_, _, _, _, _)
\* The loops of generate from the k-th position on; acc is [cells, world]
generate_cells(positions, life_chance, draws, k, acc) ==
    IF k > Len(positions) THEN acc
    ELSE generate_cells(positions, life_chance, draws, k + 1,
             IF lives(draws[k], life_chance)
             THEN [cells |-> insert(acc.cells, positions[k], acc.world.next),
                   world |-> spawn(acc.world)]
             ELSE acc)

\* Universe::generate with the entities it stores: [cells, world]
generate_entities(sz, life_chance, draws, w) ==
    generate_cells(generate_positions(sz), life_chance, draws, 1,
                   [cells |-> <<>>, world |-> w])

RECURSIVE toggle_cells_at_entities(_, _, _, _)
\* Universe::toggle_cells_at over positions[i..], with the entities: [cells, world]
toggle_cells_at_entities(m, positions, i, w) ==
    IF i > Len(positions) THEN [cells |-> m, world |-> w]
    ELSE LET pos == positions[i]
         IN  IF pos \in DOMAIN m
             THEN toggle_cells_at_entities(remove(m, pos), positions, i + 1,
                                           despawn_cell_entity(w, m[pos]))
             ELSE toggle_cells_at_entities(insert(m, pos, w.next), positions, i + 1,
                                           spawn_cell_entity(w, pos))

\* Mutant of neighbor_visited: no neighbour is taken as visited.
neighbor_visited_never(visited, neighbor_pos) == FALSE

\* visited.contains(&neighbor_pos) of tick's inner loop
neighbor_visited(visited, neighbor_pos) == Contains(visited, neighbor_pos)

RECURSIVE tick_neighbors_entities(_, _, _, _, _)
\* tick's inner loop over pos.neighbors()[i..], with the entities; m is
\* self.cells and acc is [next, visited, world].
tick_neighbors_entities(m, allowed_neighbors_for_birth, nbs, i, acc) ==
    IF i > Len(nbs) THEN acc
    ELSE LET neighbor_pos == nbs[i]
         IN  IF neighbor_visited(acc.visited, neighbor_pos) \/ neighbor_pos \in DOMAIN m
             THEN tick_neighbors_entities(m, allowed_neighbors_for_birth, nbs, i + 1, acc)
             ELSE LET neighbor_live_neighbors == live_neighbor_count(DOMAIN m, neighbor_pos)
                      is_born == /\ neighbor_pos \notin DOMAIN m
                                 /\ neighbor_live_neighbors \in allowed_neighbors_for_birth
                  IN  tick_neighbors_entities(m, allowed_neighbors_for_birth, nbs, i + 1,
                          [next    |-> IF is_born
                                       THEN insert(acc.next, neighbor_pos, acc.world.next)
                                       ELSE acc.next,
                           visited |-> Append(acc.visited, neighbor_pos),
                           world   |-> IF is_born
                                       THEN spawn_cell_entity(acc.world, neighbor_pos)
                                       ELSE acc.world])

RECURSIVE tick_cells_entities(_, _, _, _, _, _)
\* tick's outer loop over self.cells.iter(), in the order `order`, from
\* order[i], with the entities
tick_cells_entities(m, allowed_neighbors, allowed_neighbors_for_birth, order, i, acc) ==
    IF i > Len(order) THEN acc
    ELSE LET pos == order[i]
         IN  IF Contains(acc.visited, pos)
             THEN tick_cells_entities(m, allowed_neighbors, allowed_neighbors_for_birth,
                                      order, i + 1, acc)
             ELSE LET live_neighbors == live_neighbor_count(DOMAIN m, pos)
                      dies == live_neighbors \notin allowed_neighbors
                      after == tick_neighbors_entities(m, allowed_neighbors_for_birth,
                                   neighbors(pos), 1,
                                   [next    |-> IF dies THEN remove(acc.next, pos)
                                                        ELSE acc.next,
                                    visited |-> acc.visited,
                                    world   |-> IF dies
                                                THEN despawn_cell_entity(acc.world, m[pos])
                                                ELSE acc.world])
                  IN  tick_cells_entities(m, allowed_neighbors, allowed_neighbors_for_birth,
                          order, i + 1,
                          [next    |-> after.next,
                           visited |-> Append(after.visited, pos),
                           world   |-> after.world])

\* Universe::tick with the entities, iterating the map in the order `order`:
\* [cells, world]
tick_entities(m, allowed_neighbors, allowed_neighbors_for_birth, order, w) ==
    LET done == tick_cells_entities(m, allowed_neighbors, allowed_neighbors_for_birth,
                                    order, 1, [next |-> m, visited |-> <<>>, world |-> w])
    IN  [cells |-> done.next, world |-> done.world]

-----------------------------------------------------------------------------
(* Bounded variant: the grid *)

\* Universe::size: read off the grid, not the stored field
grid_size(g) ==
    [width |-> Cardinality(DOMAIN g[0]), height |-> Cardinality(DOMAIN g)]

\* Mutant of dead: width rows of height slots.
dead_transposed(sz) == [y \in 0..(sz.width - 1) |-> [x \in 0..(sz.height - 1) |-> Dead]]

\* Universe::dead
dead(sz) == [y \in 0..(sz.height - 1) |-> [x \in 0..(sz.width - 1) |-> Dead]]

\* Universe::generate of the grid: size.height rows, each pushed size.width
\* slots; draws[k] is the value drawn for the k-th slot pushed
grid_generate(sz, life_chance, draws) ==
    [y \in 0..(sz.height - 1) |->
        [x \in 0..(sz.width - 1) |->
            IF lives(draws[y * sz.width + x + 1], life_chance) THEN Alive ELSE Dead]]

\* Mutant of wrap: a coordinate past the far edge stays on it.
wrap_clamped(coordinate, delta, extent) ==
    IF coordinate + delta >= extent THEN extent - 1 ELSE coordinate + delta

\* The wrap of a neighbour's coordinate: (coordinate + delta) % extent
wrap(coordinate, delta, extent) == (coordinate + delta) % extent

\* Mutant of neighbor_lookups: the pair (0, 0) is not skipped.
neighbor_lookups_with_self(g, pos) ==
    LET sz == [width |-> Cardinality(DOMAIN g[0]), height |-> Cardinality(DOMAIN g)]
        delta_rows == <<sz.height - 1, 0, 1>>
        delta_cols == <<sz.width - 1, 0, 1>>
    IN  [k \in 1..9 |-> <<(pos[1] + delta_cols[((k - 1) % 3) + 1]) % sz.width,
                           (pos[2] + delta_rows[((k - 1) \div 3) + 1]) % sz.height>>]

\* The slots live_neighbor_count reads, in order: delta_row over
\* [height - 1, 0, 1], delta_col over [width - 1, 0, 1], the pair (0, 0) skipped.
neighbor_lookups(g, pos) ==
    LET sz == grid_size(g)
        delta_rows == <<sz.height - 1, 0, 1>>
        delta_cols == <<sz.width - 1, 0, 1>>
        pairs == [k \in 1..9 |-> <<delta_rows[((k - 1) \div 3) + 1],
                                    delta_cols[((k - 1) % 3) + 1]>>]
        kept == SelectSeq(pairs, LAMBDA d : ~(d[1] = 0 /\ d[2] = 0))
    IN  [k \in 1..Len(kept) |-> <<wrap(pos[1], kept[k][2], sz.width),
                                   wrap(pos[2], kept[k][1], sz.height)>>]

RECURSIVE SumStates(_, _, _)
\* count += self.cells[y][x].state as u8, over lookups[i..]
SumStates(g, lookups, i) ==
    IF i > Len(lookups) THEN 0
    ELSE g[lookups[i][2]][lookups[i][1]] + SumStates(g, lookups, i + 1)

\* Universe::live_neighbor_count of the grid
grid_live_neighbor_count(g, pos) == SumStates(g, neighbor_lookups(g, pos), 1)

\* Mutant of next_state: a dead cell is born by the survival set.
next_state_born_by_survival(state, live_neighbors, allowed_neighbors, allowed_neighbors_for_birth) ==
    IF state = Alive /\ live_neighbors \notin allowed_neighbors THEN Dead
    ELSE IF state = Alive /\ live_neighbors \in allowed_neighbors THEN Alive
    ELSE IF state = Dead /\ live_neighbors \in allowed_neighbors THEN Alive
    ELSE state

\* The match of tick: the next state of a cell from its state and count
next_state(state, live_neighbors, allowed_neighbors, allowed_neighbors_for_birth) ==
    IF state = Alive /\ live_neighbors \notin allowed_neighbors THEN Dead
    ELSE IF state = Alive /\ live_neighbors \in allowed_neighbors THEN Alive
    ELSE IF state = Dead /\ live_neighbors \in allowed_neighbors_for_birth THEN Alive
    ELSE state

\* Mutant of grid_tick_snapshot: the counts are taken from the buffer being filled.
grid_tick_snapshot_next(g, next) == next

\* The grid a neighbour count is taken from while tick fills `next`:
\* self.live_neighbor_count reads self.cells, the pre-tick grid.
grid_tick_snapshot(g, next) == g

RECURSIVE grid_tick_slots(_, _, _, _, _)
\* tick's loops, y outer and x inner, from slot number k (y = k div width,
\* x = k mod width); next is the buffer written so far.
grid_tick_slots(g, allowed_neighbors, allowed_neighbors_for_birth, k, next) ==
    LET sz == grid_size(g)
    IN  IF k >= sz.width * sz.height THEN next
        ELSE LET x == k % sz.width
                 y == k \div sz.width
                 live_neighbors ==
                     grid_live_neighbor_count(grid_tick_snapshot(g, next), <<x, y>>)
                 next_cell == next_state(g[y][x], live_neighbors,
                                         allowed_neighbors, allowed_neighbors_for_birth)
             IN  grid_tick_slots(g, allowed_neighbors, allowed_neighbors_for_birth,
                                 k + 1, [next EXCEPT ![y][x] = next_cell])

\* Universe::tick of the grid: the grid it leaves in self.cells
grid_tick(g, allowed_neighbors, allowed_neighbors_for_birth) ==
    grid_tick_slots(g, allowed_neighbors, allowed_neighbors_for_birth, 0, g)

RECURSIVE grid_toggle_cells_at(_, _, _)
\* Universe::toggle_cells_at of the grid over positions[i..]; the positions
\* are inside the grid.
grid_toggle_cells_at(g, positions, i) ==
    IF i > Len(positions) THEN g
    ELSE LET x == positions[i][1]
             y == positions[i][2]
         IN  grid_toggle_cells_at(
                 [g EXCEPT ![y][x] = IF g[y][x] = Dead THEN Alive ELSE Dead],
                 positions, i + 1)

\* Mutant of index_cell: an index past the edge wraps round it.
index_cell_wrapped(g, x, y) ==
    [slot |-> <<x % Cardinality(DOMAIN g[0]), y % Cardinality(DOMAIN g)>>]

\* &mut self.cells[y as usize][x as usize]: the row is indexed first, then the
\* slot in it, and Vec's index panics when the index is not below the length.
index_cell(g, x, y) ==
    IF y >= Cardinality(DOMAIN g)
    THEN [panic |-> "index out of bounds", len |-> Cardinality(DOMAIN g), index |-> y]
    ELSE IF x >= Cardinality(DOMAIN g[y])
    THEN [panic |-> "index out of bounds", len |-> Cardinality(DOMAIN g[y]), index |-> x]
    ELSE [slot |-> <<x, y>>]

RECURSIVE grid_toggle_cells_at_any(_, _, _)
\* Universe::toggle_cells_at of the grid over positions[i..], the positions
\* anywhere: the grid as the call leaves it, and how the call ends. A panic
\* ends the loop; the slots flipped before it stay flipped.
grid_toggle_cells_at_any(g, positions, i) ==
    IF i > Len(positions) THEN [cells |-> g, ended |-> [kind |-> "returned"]]
    ELSE LET cell == index_cell(g, positions[i][1], positions[i][2])
         IN  IF "panic" \in DOMAIN cell
             THEN [cells |-> g,
                   ended |-> [kind |-> "panic", message |-> cell.panic,
                              len |-> cell.len, index |-> cell.index]]
             ELSE LET x == cell.slot[1]
                      y == cell.slot[2]
                  IN  grid_toggle_cells_at_any(
                          [g EXCEPT ![y][x] = IF g[y][x] = Dead THEN Alive ELSE Dead],
                          positions, i + 1)

-----------------------------------------------------------------------------
(* The state machines: a universe is constructed, then ticked or edited *)

\* The pairs <<allowed_neighbors, allowed_neighbors_for_birth>> a
\* SimulationConfig is given in the model: Conway's rules, and rules that
\* differ from them in which counts kill, which give birth, and in whether a
\* count of zero does.
RulePairs ==
    { <<{2, 3}, {3}>>,
      <<{}, {0, 1}>>,
      <<{0, 1}, {2, 3}>>,
      <<{1, 2, 4}, {0, 3, 5}>>,
      <<{0, 1, 2, 3, 4, 5, 6, 7, 8}, {4, 5, 6, 7, 8}>> }

Window == (0..MaxX) \X (0..MaxY)

\* The unbounded universe is ticked while it is inside the model's bounds.
InBounds(cs) == cs \subseteq Window /\ Cardinality(cs) <= MaxLive

\* The grids of sz.height rows of sz.width slots
Grids(sz) == [0..(sz.height - 1) -> [0..(sz.width - 1) -> {Dead, Alive}]]

\* The sizes of the grids of the model
Sizes == {sz \in [width : 1..MaxSlots, height : 1..MaxSlots] :
             sz.width * sz.height <= MaxSlots}

GridPositions(g) == (0..(grid_size(g).width - 1)) \X (0..(grid_size(g).height - 1))

NoSize == [width |-> 0, height |-> 0]

\* SimulationConfig, with any rule sets of the model
InitConfig ==
    \E rules \in RulePairs :
        sim_config = [allowed_neighbors |-> rules[1], allowed_neighbors_for_birth |-> rules[2],
                      paused |-> FALSE]

\* SimulationConfig::default()
InitDefaultConfig ==
    sim_config = [allowed_neighbors           |-> DefaultAllowedNeighbors,
                  allowed_neighbors_for_birth |-> DefaultAllowedNeighborsForBirth,
                  paused                      |-> FALSE]

\* Universe::new of the unbounded variant on the cells cs
NewUniverse(cs) ==
    /\ variant = "unbounded"
    /\ cells = cs
    /\ grid = <<>>
    /\ size = NoSize
    /\ seed = cs

\* Universe::new of the bounded variant on the grid g
NewGridUniverse(g) ==
    /\ variant = "bounded"
    /\ cells = {}
    /\ grid = g
    /\ size = grid_size(g)
    /\ seed = g

NoHistory == ticks = 0 /\ toggled = <<>>

\* No call of the core has returned anything yet, and the universe was built
\* by Universe::new.
NoCall == returned = [kind |-> "none"] /\ generated = [by |-> "new"]

\* No command has been issued. Where the map is followed by its keys alone,
\* the entities stay so.
NoEntities ==
    /\ entity = <<>>
    /\ world = [next |-> 0, spawned |-> <<>>, despawned |-> <<>>,
                op |-> "none", before |-> <<>>, spawned_before |-> 0,
                despawned_before |-> 0]

\* The host's resources as main inserts them: DrawnPositions(vec![]), the
\* button up, no frame begun.
HostIdle ==
    /\ mouse = [pressed |-> FALSE, just_released |-> FALSE]
    /\ drawn_positions = <<>>
    /\ frame = [n |-> 0, ran |-> {}, just_finished |-> FALSE, ticks |-> 0]
    /\ press = [observed |-> FALSE, frame |-> 0, frame_ticks |-> 0, ticks |-> 0,
                toggled |-> <<>>, skipped |-> 0, last |-> "none"]

(* Spec: any universe inside the bounds, ticked once with any rule sets. Init  *)
(* is every universe of the model, so one tick from each is every tick.       *)

Init ==
    /\ InitConfig
    /\ \/ \E cs \in {c \in SUBSET Window : InBounds(c)} : NewUniverse(cs)
       \/ \E sz \in Sizes : \E g \in Grids(sz) : NewGridUniverse(g)
    /\ NoHistory
    /\ NoCall
    /\ NoEntities
    /\ HostIdle

\* fn universe: universe.tick(commands, &sim_config.allowed_neighbors,
\* &sim_config.allowed_neighbors_for_birth); the HashMap iterates in any order.
Tick ==
    /\ variant = "unbounded"
    /\ InBounds(cells)
    /\ ticks = 0
    /\ \E order \in Orders(cells) :
          cells' = tick(cells, sim_config.allowed_neighbors,
                        sim_config.allowed_neighbors_for_birth, order)
    /\ ticks' = ticks + 1
    /\ UNCHANGED <<variant, grid, size, sim_config, seed, toggled>>
    /\ UNCHANGED <<call, host>>
    /\ UNCHANGED ecs

\* Universe::tick of the grid, with the configuration's rule sets
GridTick ==
    /\ variant = "bounded"
    /\ ticks = 0
    /\ grid' = grid_tick(grid, sim_config.allowed_neighbors,
                         sim_config.allowed_neighbors_for_birth)
    /\ ticks' = ticks + 1
    /\ UNCHANGED <<variant, cells, size, sim_config, seed, toggled>>
    /\ UNCHANGED <<call, host>>
    /\ UNCHANGED ecs

Next == Tick \/ GridTick

Spec == Init /\ [][Next]_vars

(* SpecToggle: an empty or full universe, edited by toggle_cells_at *)

\* The lists of positions of P that toggle_cells_at is passed: main passes one
\* position; lists of up to MaxToggles positions, repeats included, are passed here.
ToggleLists(P) == UNION {[1..n -> P] : n \in 1..MaxToggles}

\* Universe::generate with life_chance 1.0: every slot alive
full(sz) == [y \in 0..(sz.height - 1) |-> [x \in 0..(sz.width - 1) |-> Alive]]

InitToggle ==
    /\ InitDefaultConfig
    /\ \/ \E cs \in {{}, Window} : NewUniverse(cs)
       \/ \E sz \in Sizes : \E g \in {dead(sz), full(sz)} : NewGridUniverse(g)
    /\ NoHistory
    /\ NoCall
    /\ NoEntities
    /\ HostIdle

\* Universe::toggle_cells_at(commands, positions)
ToggleCellsAt ==
    /\ variant = "unbounded"
    /\ \E positions \in ToggleLists(Window) :
          /\ Len(toggled) + Len(positions) <= MaxToggles
          /\ cells' = toggle_cells_at(cells, positions, 1)
          /\ toggled' = toggled \o positions
    /\ UNCHANGED <<variant, grid, size, sim_config, seed, ticks>>
    /\ UNCHANGED <<call, host>>
    /\ UNCHANGED ecs

\* Universe::toggle_cells_at(positions) of the grid, the positions inside it
GridToggleCellsAt ==
    /\ variant = "bounded"
    /\ \E positions \in ToggleLists(GridPositions(grid)) :
          /\ Len(toggled) + Len(positions) <= MaxToggles
          /\ grid' = grid_toggle_cells_at(grid, positions, 1)
          /\ toggled' = toggled \o positions
    /\ UNCHANGED <<variant, cells, size, sim_config, seed, ticks>>
    /\ UNCHANGED <<call, host>>
    /\ UNCHANGED ecs

NextToggle == ToggleCellsAt \/ GridToggleCellsAt

SpecToggle == InitToggle /\ [][NextToggle]_vars

(* SpecOutside: a grid edited by one toggle_cells_at whose positions may lie   *)
(* outside it                                                                 *)

\* The positions of the grid g and those one column or one row outside it
AroundGrid(g) == (0..grid_size(g).width) \X (0..grid_size(g).height)

InitOutside ==
    /\ InitDefaultConfig
    /\ \E sz \in Sizes : \E g \in {dead(sz), full(sz)} : NewGridUniverse(g)
    /\ NoHistory
    /\ NoCall
    /\ NoEntities
    /\ HostIdle

\* Universe::toggle_cells_at(positions) of the grid, the positions anywhere
GridToggleCellsAtAny ==
    /\ variant = "bounded"
    /\ returned.kind = "none"
    /\ \E positions \in ToggleLists(AroundGrid(grid)) :
          LET r == grid_toggle_cells_at_any(grid, positions, 1)
          IN  /\ grid' = r.cells
              /\ returned' = r.ended
              /\ toggled' = positions
    /\ UNCHANGED <<variant, cells, size, sim_config, seed, ticks, generated, host>>
    /\ UNCHANGED ecs

NextOutside == GridToggleCellsAtAny

SpecOutside == InitOutside /\ [][NextOutside]_vars

(* SpecBounds: a universe with cells anywhere an i32 reaches, asked its bounds *)

\* The coordinates of the cells: the least and greatest i32, their
\* neighbours, and the coordinates around 0
Coordinates == {0 - MAX - 1, 0 - MAX, 0 - 1, 0, 1, MAX}

\* The sets of one, two or three elements of P
UpTo3(P) == {{p, q, r} : p, q, r \in P}

InitBounds ==
    /\ InitDefaultConfig
    /\ \/ NewUniverse({})
       \/ \E cs \in UpTo3(Coordinates \X Coordinates) : NewUniverse(cs)
    /\ NoHistory
    /\ NoCall
    /\ NoEntities
    /\ HostIdle

\* universe.bounds(), once; the HashMap iterates in any order
Bounds ==
    /\ variant = "unbounded"
    /\ returned.kind = "none"
    /\ \E order \in Orders(cells) :
          returned' = [kind |-> "bounds", value |-> bounds(order)]
    /\ UNCHANGED <<variant, cells, grid, size, sim_config, seed, ticks, toggled>>
    /\ UNCHANGED <<generated, host>>
    /\ UNCHANGED ecs

NextBounds == Bounds

SpecBounds == InitBounds /\ [][NextBounds]_vars

(* SpecGenerate: a universe built by dead or generate; a grid is then ticked  *)
(* and edited                                                                 *)

\* The values of life_chance: below 0.0, 0.0, the default 0.4, 1.0, above 1.0
LifeChances == {0 - 5, 0, 4, 10, 15}

\* The sizes the unbounded generate is given
GenerateSizes == [width : 0..MaxSide, height : 0..MaxSide]

\* No universe has been constructed yet.
NotConstructed ==
    /\ variant = "none"
    /\ cells = {}
    /\ grid = <<>>
    /\ size = NoSize
    /\ seed = {}
    /\ generated = [by |-> "none"]

InitGenerate ==
    /\ InitDefaultConfig
    /\ NotConstructed
    /\ NoHistory
    /\ returned = [kind |-> "none"]
    /\ NoEntities
    /\ HostIdle

\* setup_universe: Universe::generate(commands, materials, size, life_chance)
Generate ==
    /\ variant = "none"
    /\ \E sz \in GenerateSizes, life_chance \in LifeChances :
          \E draws \in [1..Len(generate_positions(sz)) -> Draws] :
             /\ cells' = generate(sz, life_chance, draws)
             /\ seed' = cells'
             /\ generated' = [by |-> "generate", size |-> sz, life_chance |-> life_chance]
    /\ variant' = "unbounded"
    /\ UNCHANGED <<grid, size, sim_config, ticks, toggled, returned, host>>
    /\ UNCHANGED ecs

\* Universe::generate(size, life_chance) of the grid
GridGenerate ==
    /\ variant = "none"
    /\ \E sz \in Sizes, life_chance \in LifeChances :
          \E draws \in [1..(sz.width * sz.height) -> Draws] :
             /\ grid' = grid_generate(sz, life_chance, draws)
             /\ size' = sz
             /\ seed' = grid'
             /\ generated' = [by |-> "generate", size |-> sz, life_chance |-> life_chance]
    /\ variant' = "bounded"
    /\ UNCHANGED <<cells, sim_config, ticks, toggled, returned, host>>
    /\ UNCHANGED ecs

\* Universe::dead(size)
GridDead ==
    /\ variant = "none"
    /\ \E sz \in Sizes :
          /\ grid' = dead(sz)
          /\ size' = sz
          /\ seed' = grid'
          /\ generated' = [by |-> "dead", size |-> sz]
    /\ variant' = "bounded"
    /\ UNCHANGED <<cells, sim_config, ticks, toggled, returned, host>>
    /\ UNCHANGED ecs

NextGenerate == Generate \/ GridGenerate \/ GridDead \/ GridTick \/ GridToggleCellsAt

SpecGenerate == InitGenerate /\ [][NextGenerate]_vars

(* SpecDriver: the frames of the app. In each frame the input is updated,    *)
(* then the systems `universe` and `draw_cells` run, in either order.         *)

\* Input::update, Input::press and Input::release of the engine, for the two
\* fields of Input<MouseButton> that draw_cells reads of the left button
Input_update(m) == [m EXCEPT !.just_released = FALSE]
Input_press(m) == [m EXCEPT !.pressed = TRUE]
Input_release(m) == [m EXCEPT !.pressed = FALSE, !.just_released = TRUE]

\* The button events of one frame: the button goes down only when it is up
\* and up only when it is down; up to two events reach a frame.
MouseEvents(m) ==
    IF m.pressed THEN {<<>>, <<"release">>, <<"release", "press">>}
                 ELSE {<<>>, <<"press">>, <<"press", "release">>}

RECURSIVE Input_events(_, _)
Input_events(m, events) ==
    IF events = <<>> THEN m
    ELSE Input_events(IF Head(events) = "press" THEN Input_press(m) ELSE Input_release(m),
                      Tail(events))

\* The cells the cursor is over: cursor_pos of draw_cells
CursorPositions == (0..MaxCursor) \X {0}

\* The universes the app starts from: what generate returned
DriverSeeds == {{}, {<<0, 0>>, <<1, 0>>, <<0, 1>>}}

\* No system has panicked.
Running == variant = "unbounded" /\ returned.kind # "panic"

InitDriver ==
    /\ InitDefaultConfig
    /\ \E cs \in DriverSeeds : NewUniverse(cs)
    /\ NoHistory
    /\ NoCall
    /\ NoEntities
    /\ HostIdle

\* The start of a frame: the engine updates Input<MouseButton> from the
\* frame's events before the systems of the update stage run.
BeginFrame ==
    /\ Running
    /\ frame.n < MaxFrames
    /\ frame.n = 0 \/ frame.ran = {"universe", "draw_cells"}
    /\ \E events \in MouseEvents(mouse) :
          mouse' = Input_events(Input_update(mouse), events)
    /\ frame' = [n |-> frame.n + 1, ran |-> {}, just_finished |-> FALSE, ticks |-> ticks]
    /\ UNCHANGED <<variant, cells, grid, size, sim_config, seed, ticks, toggled>>
    /\ UNCHANGED <<call, drawn_positions, press>>
    /\ UNCHANGED ecs

\* Mutant of should_tick: the pause flag is not looked at.
should_tick_when_due(just_finished, paused) == just_finished

\* tick_interval.tick(time.delta()).just_finished() && !sim_config.paused
should_tick(just_finished, paused) == just_finished /\ ~paused

\* fn universe: the timer is ticked, and the universe with it if the timer
\* has just finished and the simulation is not paused.
UniverseSystem ==
    /\ Running
    /\ frame.n > 0
    /\ "universe" \notin frame.ran
    /\ \E just_finished \in BOOLEAN :
          /\ frame' = [frame EXCEPT !.ran = @ \cup {"universe"},
                                    !.just_finished = just_finished]
          /\ IF should_tick(just_finished, sim_config.paused)
             THEN /\ \E order \in Orders(cells) :
                        cells' = tick(cells, sim_config.allowed_neighbors,
                                      sim_config.allowed_neighbors_for_birth, order)
                  /\ ticks' = ticks + 1
             ELSE UNCHANGED <<cells, ticks>>
    /\ UNCHANGED <<variant, grid, size, sim_config, seed, toggled>>
    /\ UNCHANGED <<call, mouse, drawn_positions, press>>
    /\ UNCHANGED ecs

\* Mutant of draw_cells_paused: a press flips the flag.
draw_cells_paused_flipped(m, paused) ==
    IF m.pressed THEN ~paused ELSE IF m.just_released THEN FALSE ELSE paused

\* What draw_cells leaves in sim_config.paused
draw_cells_paused(m, paused) ==
    IF m.pressed THEN TRUE ELSE IF m.just_released THEN FALSE ELSE paused

\* Mutant of already_drawn: the list is not looked at.
already_drawn_never(drawn, cursor_pos) == FALSE

\* drawn_positions.0.contains(&cursor_pos)
already_drawn(drawn, cursor_pos) == Contains(drawn, cursor_pos)

\* bounds.size() of draw_cells: universe.bounds().with_padding(bound_padding)
\* .size(), and whether an operation on the way overflowed
universe_size(order) ==
    LET padded == with_padding(bounds(order), bound_padding)
        sized == bounds_size(padded.value)
    IN  [value |-> sized.value, overflow |-> padded.overflow \/ sized.overflow]

\* press, as draw_cells leaves it when it has found the button pressed
Pressed(did, cursor_pos) ==
    [observed    |-> TRUE,
     frame       |-> IF press.observed THEN press.frame ELSE frame.n,
     frame_ticks |-> IF press.observed THEN press.frame_ticks ELSE frame.ticks,
     ticks       |-> IF press.observed THEN press.ticks ELSE ticks,
     toggled     |-> IF did = "toggled" THEN Append(press.toggled, cursor_pos)
                                        ELSE press.toggled,
     skipped     |-> IF did = "skipped" THEN press.skipped + 1 ELSE press.skipped,
     last        |-> "pressed"]

\* fn draw_cells, the button pressed: the simulation is paused and the cell
\* under the cursor toggled unless it was drawn already. bounds.size() has
\* not overflowed, or the build wraps: the size only scales the cursor, which
\* is anywhere, so cursor_pos is any of CursorPositions.
DrawCellsPressed ==
    /\ Running
    /\ frame.n > 0
    /\ "draw_cells" \notin frame.ran
    /\ mouse.pressed
    /\ \E cursor_pos \in CursorPositions :
          /\ IF ~already_drawn(drawn_positions, cursor_pos)
             THEN /\ cells' = toggle_cells_at(cells, <<cursor_pos>>, 1)
                  /\ toggled' = Append(toggled, cursor_pos)
                  /\ drawn_positions' = Append(drawn_positions, cursor_pos)
                  /\ press' = Pressed("toggled", cursor_pos)
             ELSE /\ UNCHANGED <<cells, toggled, drawn_positions>>
                  /\ press' = Pressed("skipped", cursor_pos)
    /\ sim_config' = [sim_config EXCEPT !.paused = draw_cells_paused(mouse, @)]
    /\ frame' = [frame EXCEPT !.ran = @ \cup {"draw_cells"}]
    /\ UNCHANGED <<variant, grid, size, seed, ticks, call, mouse>>
    /\ UNCHANGED ecs

\* fn draw_cells, the button pressed, in a build with overflow checks: the
\* simulation is paused, then bounds.size() overflows and the system panics.
DrawCellsOverflow ==
    /\ Running
    /\ frame.n > 0
    /\ "draw_cells" \notin frame.ran
    /\ mouse.pressed
    /\ \E order \in Orders(cells) : universe_size(order).overflow
    /\ sim_config' = [sim_config EXCEPT !.paused = draw_cells_paused(mouse, @)]
    /\ returned' = [kind |-> "panic", message |-> "attempt to subtract with overflow"]
    /\ press' = [press EXCEPT !.last = "panicked"]
    /\ frame' = [frame EXCEPT !.ran = @ \cup {"draw_cells"}]
    /\ UNCHANGED <<variant, cells, grid, size, seed, ticks, toggled>>
    /\ UNCHANGED <<generated, mouse, drawn_positions>>
    /\ UNCHANGED ecs

\* fn draw_cells, the button not pressed and just released: the simulation
\* is resumed and the drawn positions are forgotten.
DrawCellsReleased ==
    /\ Running
    /\ frame.n > 0
    /\ "draw_cells" \notin frame.ran
    /\ ~mouse.pressed
    /\ mouse.just_released
    /\ sim_config' = [sim_config EXCEPT !.paused = draw_cells_paused(mouse, @)]
    /\ drawn_positions' = <<>>
    /\ press' = [observed |-> FALSE, frame |-> 0, frame_ticks |-> 0, ticks |-> 0,
                 toggled |-> <<>>, skipped |-> 0, last |-> "released"]
    /\ frame' = [frame EXCEPT !.ran = @ \cup {"draw_cells"}]
    /\ UNCHANGED <<variant, cells, grid, size, seed, ticks, toggled, call, mouse>>
    /\ UNCHANGED ecs

\* fn draw_cells, the button neither pressed nor just released: nothing
DrawCellsIdle ==
    /\ Running
    /\ frame.n > 0
    /\ "draw_cells" \notin frame.ran
    /\ ~mouse.pressed
    /\ ~mouse.just_released
    /\ sim_config' = [sim_config EXCEPT !.paused = draw_cells_paused(mouse, @)]
    /\ press' = [press EXCEPT !.last = "idle"]
    /\ frame' = [frame EXCEPT !.ran = @ \cup {"draw_cells"}]
    /\ UNCHANGED <<variant, cells, grid, size, seed, ticks, toggled>>
    /\ UNCHANGED <<call, mouse, drawn_positions>>
    /\ UNCHANGED ecs

NextDriver ==
    \/ BeginFrame
    \/ UniverseSystem
    \/ DrawCellsPressed
    \/ DrawCellsOverflow
    \/ DrawCellsReleased
    \/ DrawCellsIdle

SpecDriver == InitDriver /\ [][NextDriver]_vars

(* SpecEntities: a generated universe ticked and edited, the Entity of every  *)
(* cell and the spawn and despawn commands followed                           *)

\* The cells toggled: one that generate may fill and one it never fills
EntityWindow == {<<0, 0>>, <<1, 0>>}

\* The rule sets of the ticks: Conway's, and rules under which crowded cells
\* die and pairs give birth
EntityRules == {<<{2, 3}, {3}>>, <<{0, 1}, {2, 3}>>}

\* `world` as an operation that starts from the map m and the commands w finds it
Began(w, op, m) ==
    [w EXCEPT !.op = op, !.before = m, !.spawned_before = Len(w.spawned),
              !.despawned_before = Len(w.despawned)]

\* setup_universe: Universe::generate on a size of 2 by 2, any cell drawn alive
InitEntities ==
    /\ \E rules \in EntityRules :
          sim_config = [allowed_neighbors |-> rules[1],
                        allowed_neighbors_for_birth |-> rules[2], paused |-> FALSE]
    /\ \E draws \in [1..Len(generate_positions([width |-> 2, height |-> 2])) -> Draws] :
          LET sz == [width |-> 2, height |-> 2]
              made == generate_entities(sz, 4, draws,
                         [next |-> 0, spawned |-> <<>>, despawned |-> <<>>,
                          op |-> "generate", before |-> <<>>, spawned_before |-> 0,
                          despawned_before |-> 0])
          IN  /\ NewUniverse(DOMAIN made.cells)
              /\ entity = made.cells
              /\ world = made.world
              /\ generated = [by |-> "generate", size |-> sz, life_chance |-> 4,
                              draws |-> draws]
    /\ returned = [kind |-> "none"]
    /\ NoHistory
    /\ HostIdle

\* Universe::toggle_cells_at(commands, positions)
ToggleCellsAtEntities ==
    /\ variant = "unbounded"
    /\ \E positions \in ToggleLists(EntityWindow) :
          /\ Len(toggled) + Len(positions) <= MaxToggles
          /\ LET done == toggle_cells_at_entities(entity, positions, 1,
                                                  Began(world, "toggle_cells_at", entity))
             IN  /\ entity' = done.cells
                 /\ world' = done.world
                 /\ cells' = DOMAIN done.cells
          /\ toggled' = toggled \o positions
    /\ UNCHANGED <<variant, grid, size, sim_config, seed, ticks, call, host>>

\* fn universe: universe.tick(commands, &sim_config.allowed_neighbors,
\* &sim_config.allowed_neighbors_for_birth); the HashMap iterates in any order.
TickEntities ==
    /\ variant = "unbounded"
    /\ ticks < MaxTicks
    /\ Cardinality(cells) <= MaxLive
    /\ \E order \in Orders(cells) :
          LET done == tick_entities(entity, sim_config.allowed_neighbors,
                                    sim_config.allowed_neighbors_for_birth, order,
                                    Began(world, "tick", entity))
          IN  /\ entity' = done.cells
              /\ world' = done.world
              /\ cells' = DOMAIN done.cells
    /\ ticks' = ticks + 1
    /\ UNCHANGED <<variant, grid, size, sim_config, seed, toggled, call, host>>

NextEntities == ToggleCellsAtEntities \/ TickEntities

SpecEntities == InitEntities /\ [][NextEntities]_vars

(* SpecRender: a universe ticked, and the render systems that size it every   *)
(* frame                                                                      *)

InitRender ==
    /\ InitDefaultConfig
    /\ \E cs \in {c \in SUBSET Window : InBounds(c)} : NewUniverse(cs)
    /\ NoHistory
    /\ NoCall
    /\ NoEntities
    /\ HostIdle

\* fn universe, while no system has panicked
RenderTick == Running /\ Tick

\* What a render system leaves of universe.bounds().with_padding(
\* sim_config.bound_padding).size(): the size, in a build without overflow
\* checks the wrapped one
Sized(system, order) ==
    [kind |-> "size", by |-> system, of |-> cells,
     value |-> universe_size(order).value, overflow |-> universe_size(order).overflow]

\* The panic of a render system in a build with overflow checks
Overflowed(system) ==
    [kind |-> "panic", by |-> system, of |-> cells,
     message |-> "attempt to subtract with overflow"]

\* fn position_translation: the bounds and the size the translations are
\* computed from
PositionTranslation ==
    /\ Running
    /\ \E order \in Orders(cells) : returned' = Sized("position_translation", order)
    /\ UNCHANGED <<variant, cells, grid, size, sim_config, seed, ticks, toggled>>
    /\ UNCHANGED <<generated, host, ecs>>

\* fn position_translation in a build with overflow checks, the size overflowing
PositionTranslationOverflow ==
    /\ Running
    /\ \E order \in Orders(cells) : universe_size(order).overflow
    /\ returned' = Overflowed("position_translation")
    /\ UNCHANGED <<variant, cells, grid, size, sim_config, seed, ticks, toggled>>
    /\ UNCHANGED <<generated, host, ecs>>

\* fn size_scaling: the size the sprites are scaled by
SizeScaling ==
    /\ Running
    /\ \E order \in Orders(cells) : returned' = Sized("size_scaling", order)
    /\ UNCHANGED <<variant, cells, grid, size, sim_config, seed, ticks, toggled>>
    /\ UNCHANGED <<generated, host, ecs>>

\* fn size_scaling in a build with overflow checks, the size overflowing
SizeScalingOverflow ==
    /\ Running
    /\ \E order \in Orders(cells) : universe_size(order).overflow
    /\ returned' = Overflowed("size_scaling")
    /\ UNCHANGED <<variant, cells, grid, size, sim_config, seed, ticks, toggled>>
    /\ UNCHANGED <<generated, host, ecs>>

NextRender ==
    \/ RenderTick
    \/ PositionTranslation
    \/ PositionTranslationOverflow
    \/ SizeScaling
    \/ SizeScalingOverflow

SpecRender == InitRender /\ [][NextRender]_vars

(* SpecPattern: a pattern placed in a universe, ticked with the default rules *)

\* A 2x2 block and a row of three, as offset lists like CellPattern::glider
block == <<<<0, 0>>, <<1, 0>>, <<0, 1>>, <<1, 1>>>>
blinker == <<<<0, 0>>, <<1, 0>>, <<2, 0>>>>
\* the column of three through the centre of blinker
blinker_turned == <<<<1, 0 - 1>>, <<1, 0>>, <<1, 1>>>>

Anchors == ((0 - MaxAnchor)..MaxAnchor) \X ((0 - MaxAnchor)..MaxAnchor)

\* The pattern's cells at an anchor: anchor + offset
Place(pattern, anchor) ==
    {<<anchor[1] + pattern[i][1], anchor[2] + pattern[i][2]>> : i \in 1..Len(pattern)}

\* The grid of sz whose live slots are the pattern's cells at the anchor, taken
\* around the torus
PlaceOnGrid(pattern, anchor, sz) ==
    LET on == {<<p[1] % sz.width, p[2] % sz.height>> : p \in Place(pattern, anchor)}
    IN  [y \in 0..(sz.height - 1) |->
            [x \in 0..(sz.width - 1) |-> IF <<x, y>> \in on THEN Alive ELSE Dead]]

PatternSizes(least) == [width : least..MaxGrid, height : least..MaxGrid]

InitPattern ==
    /\ InitDefaultConfig
    /\ \/ \E pattern \in {glider, block, blinker}, anchor \in Anchors :
             NewUniverse(Place(pattern, anchor))
       \/ \E sz \in PatternSizes(4) :
             \E anchor \in (0..(sz.width - 1)) \X (0..(sz.height - 1)) :
                NewGridUniverse(PlaceOnGrid(block, anchor, sz))
       \/ \E sz \in PatternSizes(5) :
             \E anchor \in (0..(sz.width - 1)) \X (0..(sz.height - 1)) :
                NewGridUniverse(PlaceOnGrid(blinker, anchor, sz))
    /\ NoHistory
    /\ NoCall
    /\ NoEntities
    /\ HostIdle

\* fn universe, run for up to MaxGen ticks of the unbounded universe
PatternTick ==
    /\ variant = "unbounded"
    /\ ticks < MaxGen
    /\ \E order \in Orders(cells) :
          cells' = tick(cells, sim_config.allowed_neighbors,
                        sim_config.allowed_neighbors_for_birth, order)
    /\ ticks' = ticks + 1
    /\ UNCHANGED <<variant, grid, size, sim_config, seed, toggled>>
    /\ UNCHANGED <<call, host>>
    /\ UNCHANGED ecs

\* up to MaxGen ticks of the grid
PatternGridTick ==
    /\ variant = "bounded"
    /\ ticks < MaxGen
    /\ grid' = grid_tick(grid, sim_config.allowed_neighbors,
                         sim_config.allowed_neighbors_for_birth)
    /\ ticks' = ticks + 1
    /\ UNCHANGED <<variant, cells, size, sim_config, seed, toggled>>
    /\ UNCHANGED <<call, host>>
    /\ UNCHANGED ecs

NextPattern == PatternTick \/ PatternGridTick

SpecPattern == InitPattern /\ [][NextPattern]_vars

-----------------------------------------------------------------------------
(* What the claims speak of *)

\* The rule sets of the configuration
AN == sim_config.allowed_neighbors
AB == sim_config.allowed_neighbors_for_birth

Abs(n) == IF n < 0 THEN -n ELSE n

\* p and q are distinct and adjacent: q is one of the 8 Moore neighbours of p
Adjacent(p, q) == p # q /\ Abs(p[1] - q[1]) <= 1 /\ Abs(p[2] - q[2]) <= 1

\* The number of Moore neighbours of p in the set S
MooreCount(S, p) == Cardinality({q \in S : Adjacent(p, q)})

\* The 8 Moore neighbours of p
Around(p) ==
    {q \in ((p[1] - 1)..(p[1] + 1)) \X ((p[2] - 1)..(p[2] + 1)) : q # p}

\* Every position within two steps of the window: all the positions a tick of
\* a universe inside the window can reach, and a ring of positions beyond them.
Region == ((0 - 2)..(MaxX + 2)) \X ((0 - 2)..(MaxY + 2))

LiveSlots(g) == {p \in GridPositions(g) : g[p[2]][p[1]] = Alive}

\* One tick has been applied to seed, and nothing else
OneTick == ticks = 1 /\ toggled = <<>>

\* C1: unbounded tick. After tick, a position is alive iff it was alive and its
\* number of Moore neighbours in the pre-tick set is in allowed_neighbors, or
\* it was dead, adjacent to a pre-tick cell, and its number of neighbours in
\* the pre-tick set is in allowed_neighbors_for_birth; nothing else is alive.
C1_TickUnbounded ==
    (variant = "unbounded" /\ OneTick) =>
        /\ cells \subseteq Region
        /\ \A p \in Region :
              p \in cells <=>
                  \/ p \in seed /\ MooreCount(seed, p) \in AN
                  \/ /\ p \notin seed
                     /\ \E q \in seed : Adjacent(p, q)
                     /\ MooreCount(seed, p) \in AB

\* C1 witness: a tick in which one cell survived, one died and one was born,
\* under rules that would give birth to a cell with no neighbours.
C1_Witness ==
    /\ variant = "unbounded" /\ OneTick
    /\ 0 \in AB
    /\ seed \cap cells # {}
    /\ seed \ cells # {}
    /\ cells \ seed # {}

\* C2: bounded tick. After tick, every slot is Alive iff it was Alive and its
\* pre-tick live_neighbor_count is in allowed_neighbors, or it was Dead and its
\* pre-tick live_neighbor_count is in allowed_neighbors_for_birth.
C2_TickGrid ==
    (variant = "bounded" /\ OneTick) =>
        /\ grid_size(grid) = grid_size(seed)
        /\ \A p \in GridPositions(seed) :
              grid[p[2]][p[1]] = Alive <=>
                  \/ /\ seed[p[2]][p[1]] = Alive
                     /\ grid_live_neighbor_count(seed, p) \in AN
                  \/ /\ seed[p[2]][p[1]] = Dead
                     /\ grid_live_neighbor_count(seed, p) \in AB

\* C2 witness: a tick of a grid in which a slot survived, one died, one was born
C2_Witness ==
    /\ variant = "bounded" /\ OneTick
    /\ LiveSlots(seed) \cap LiveSlots(grid) # {}
    /\ LiveSlots(seed) \ LiveSlots(grid) # {}
    /\ LiveSlots(grid) \ LiveSlots(seed) # {}

\* C3: the unbounded tick does not depend on the order in which the live-cell
\* map is iterated: every order yields the cells the tick left.
C3_OrderIndependent ==
    (variant = "unbounded" /\ OneTick) =>
        \A order \in Orders(seed) : tick(seed, AN, AB, order) = cells

\* C3 witness: a tick of three cells, so of six iteration orders, with a death
\* and a birth
C3_Witness ==
    /\ variant = "unbounded" /\ OneTick
    /\ Cardinality(seed) = 3
    /\ seed \ cells # {}
    /\ cells \ seed # {}

Empty == IF variant = "unbounded" THEN cells = {} ELSE LiveSlots(grid) = {}
SeedEmpty == IF variant = "unbounded" THEN seed = {} ELSE LiveSlots(seed) = {}

\* C4 as stated: an empty universe is empty after a tick, in both variants,
\* whatever the rule sets.
C4_EmptyStaysEmpty == (OneTick /\ SeedEmpty) => Empty

\* C4 amended: an empty universe is empty after a tick, in the unbounded
\* variant whatever the rule sets, and in the bounded variant when
\* allowed_neighbors_for_birth does not contain 0.
C4_EmptyStaysEmptyAmended ==
    (OneTick /\ SeedEmpty /\ (variant = "bounded" => 0 \notin AB)) => Empty

\* C4 witness: the empty unbounded universe, ticked under rules whose birth set
\* contains 0, is still empty
C4_Witness ==
    /\ variant = "unbounded" /\ OneTick
    /\ 0 \in AB
    /\ seed = {} /\ cells = {}

\* C7: live_neighbor_count is in 0..8: in the unbounded variant at every
\* position, where neighbors is 8 distinct positions adjacent to pos and never
\* pos; in the bounded variant at every position of every grid.
C7_CountRange ==
    /\ variant = "unbounded" =>
          \A pos \in Region :
              /\ live_neighbor_count(cells, pos) \in 0..8
              /\ Len(neighbors(pos)) = 8
              /\ {neighbors(pos)[i] : i \in 1..8} = Around(pos)
    /\ variant = "bounded" =>
          \A pos \in GridPositions(grid) : grid_live_neighbor_count(grid, pos) \in 0..8

\* C7 witness: a grid of height 2 with a slot whose count is 8
C7_Witness ==
    /\ variant = "bounded"
    /\ grid_size(grid).height = 2
    /\ \E pos \in GridPositions(grid) : grid_live_neighbor_count(grid, pos) = 8

\* the slots live_neighbor_count reads at pos, as a set
LookupSet(g, pos) ==
    LET lookups == neighbor_lookups(g, pos)
    IN  {lookups[i] : i \in 1..Len(lookups)}

\* C8: toroidal wraparound. Every lookup of live_neighbor_count is inside the
\* grid; the count at (0,0) counts a live cell at (width-1, height-1); a slot
\* on an edge reads the slots of the opposite edge in the rows (columns) next
\* to its own, and every live slot read is counted.
C8_Wraparound ==
    variant = "bounded" =>
        LET w == grid_size(grid).width
            h == grid_size(grid).height
            live == LiveSlots(grid)
        IN  /\ \A pos \in GridPositions(grid) :
                  LET read == LookupSet(grid, pos)
                  IN  /\ read \subseteq GridPositions(grid)
                      /\ grid_live_neighbor_count(grid, pos) >= Cardinality(read \cap live)
                      /\ \A d \in {0 - 1, 0, 1} :
                            /\ pos[1] = 0 => <<w - 1, (pos[2] + d) % h>> \in read
                            /\ pos[1] = w - 1 => <<0, (pos[2] + d) % h>> \in read
                            /\ pos[2] = 0 => <<(pos[1] + d) % w, h - 1>> \in read
                            /\ pos[2] = h - 1 => <<(pos[1] + d) % w, 0>> \in read
            /\ grid[h - 1][w - 1] = Alive => grid_live_neighbor_count(grid, <<0, 0>>) >= 1

\* C8 witness: on a grid of 3 columns and 2 rows whose only live slot is the
\* far corner, the count at (0,0) is not 0
C8_Witness ==
    /\ variant = "bounded"
    /\ grid_size(grid) = [width |-> 3, height |-> 2]
    /\ LiveSlots(grid) = {<<2, 1>>}
    /\ grid_live_neighbor_count(grid, <<0, 0>>) >= 1

\* C5: the glider of CellPattern::glider(), placed at an anchor (the origin
\* among them) and ticked four times under the default rules, is exactly the
\* same five cells moved by (1, 1).
C5_GliderTranslation ==
    \A anchor \in Anchors :
        (variant = "unbounded" /\ seed = Place(glider, anchor) /\ ticks = 4) =>
            cells = Place(glider, <<anchor[1] + 1, anchor[2] + 1>>)

\* C5 witness: the glider placed at (0, 0), after four ticks, at (1, 1)
C5_Witness ==
    /\ variant = "unbounded"
    /\ seed = Place(glider, <<0, 0>>)
    /\ ticks = 4
    /\ cells = Place(glider, <<1, 1>>)
    /\ Cardinality(cells) = 5

\* how often e occurs in the sequence s
RECURSIVE Occurrences(_, _)
Occurrences(s, e) ==
    IF s = <<>> THEN 0
    ELSE (IF Head(s) = e THEN 1 ELSE 0) + Occurrences(Tail(s), e)

\* C6: toggle_cells_at flips exactly the listed positions, once per listing:
\* after any calls, a position's life differs from what it was iff it was
\* listed an odd number of times. So one toggle removes a live cell and inserts
\* an absent one, two toggles of a position (in one list or two calls) restore
\* it, and a position not listed keeps its state.
C6_ToggleInverse ==
    /\ variant = "unbounded" =>
          /\ cells \subseteq Window
          /\ \A p \in Window :
                ((p \in cells) # (p \in seed)) <=> (Occurrences(toggled, p) % 2 = 1)
    /\ variant = "bounded" =>
          /\ grid_size(grid) = grid_size(seed)
          /\ \A p \in GridPositions(seed) :
                (grid[p[2]][p[1]] # seed[p[2]][p[1]]) <=> (Occurrences(toggled, p) % 2 = 1)

\* C6 witness: a live slot of a grid toggled twice is alive again, and the
\* grid is as it was
C6_Witness ==
    /\ variant = "bounded"
    /\ Len(toggled) = 2
    /\ toggled[1] = toggled[2]
    /\ seed[toggled[1][2]][toggled[1][1]] = Alive
    /\ grid = seed

\* the seed is a 2x2 block: at an anchor of the plane, or on a grid of at
\* least 4x4, at a slot of it
SeedIsBlock ==
    IF variant = "unbounded"
    THEN \E anchor \in Anchors : seed = Place(block, anchor)
    ELSE /\ grid_size(seed).width >= 4 /\ grid_size(seed).height >= 4
         /\ \E anchor \in GridPositions(seed) :
               seed = PlaceOnGrid(block, anchor, grid_size(seed))

\* C9: a 2x2 block is unchanged by any number of ticks under the default
\* rules, in the plane at any anchor and on any grid of at least 4x4.
C9_BlockStill ==
    SeedIsBlock => IF variant = "unbounded" THEN cells = seed ELSE grid = seed

\* C9 witness: a block across the corner of a 4x4 grid, after two ticks
C9_Witness ==
    /\ variant = "bounded"
    /\ grid_size(seed) = [width |-> 4, height |-> 4]
    /\ seed = PlaceOnGrid(block, <<3, 3>>, grid_size(seed))
    /\ ticks = 2
    /\ grid = seed
    /\ Cardinality(LiveSlots(grid)) = 4

\* C10: a row of three under the default rules is the column of three through
\* the same centre after one tick and the row again after two, in the plane
\* and on any grid of at least 5x5.
C10_Blinker ==
    /\ variant = "unbounded" =>
          \A anchor \in Anchors :
              seed = Place(blinker, anchor) =>
                  /\ ticks = 1 => cells = Place(blinker_turned, anchor)
                  /\ ticks = 2 => cells = seed
    /\ variant = "bounded" =>
          \A anchor \in GridPositions(seed) :
              (/\ grid_size(seed).width >= 5 /\ grid_size(seed).height >= 5
               /\ seed = PlaceOnGrid(blinker, anchor, grid_size(seed))) =>
                  /\ ticks = 1 => grid = PlaceOnGrid(blinker_turned, anchor, grid_size(seed))
                  /\ ticks = 2 => grid = seed

\* C10 witness: a row of three in the plane, back after two ticks
C10_Witness ==
    /\ variant = "unbounded"
    /\ seed = Place(blinker, <<0, 0>>)
    /\ ticks = 2
    /\ cells = seed
    /\ Cardinality(cells) = 3

\* bounds() has returned b for the universe it was built as
BoundsReturned == variant = "unbounded" /\ returned.kind = "bounds"

\* C11: bounds() of an empty universe is a rectangle that is not inverted:
\* left <= right and bottom <= top.
C11_EmptyBoundsNotInverted ==
    (BoundsReturned /\ cells = {}) =>
        /\ returned.value.left <= returned.value.right
        /\ returned.value.bottom <= returned.value.top

\* b is the least rectangle that holds the cells cs, each side of it on a cell
MinimalRectangle(b, cs) ==
    /\ \A p \in cs : /\ b.left <= p[1] /\ p[1] <= b.right
                      /\ b.bottom <= p[2] /\ p[2] <= b.top
    /\ \E p \in cs : p[1] = b.left
    /\ \E p \in cs : p[1] = b.right
    /\ \E p \in cs : p[2] = b.bottom
    /\ \E p \in cs : p[2] = b.top

\* C12: bounds() of a universe that is not empty is the least rectangle that
\* holds its cells, each of the four sides on a live cell, and the universe is
\* as it was.
C12_BoundsMinimal ==
    (BoundsReturned /\ seed # {}) =>
        /\ cells = seed
        /\ MinimalRectangle(returned.value, cells)

\* C12, where it holds: the same of every universe with a cell whose x is
\* greater than the least i32 and a cell whose y is.
C12_BoundsMinimalAboveLeast ==
    (/\ BoundsReturned
     /\ \E p \in seed : p[1] > 0 - MAX - 1
     /\ \E p \in seed : p[2] > 0 - MAX - 1) =>
        /\ cells = seed
        /\ MinimalRectangle(returned.value, cells)

\* The universe was built by generate; seed is what generate returned
Generated == generated.by = "generate"

\* C14: the unbounded generate draws for exactly size.width * size.height
\* positions: with life_chance 1.0 that many cells are alive, with 0.0 none,
\* whatever the size, odd widths and heights included.
C14_GenerateFillsRectangle ==
    (variant = "unbounded" /\ Generated) =>
        /\ generated.life_chance = 10 =>
               Cardinality(seed) = generated.size.width * generated.size.height
        /\ generated.life_chance = 0 => seed = {}

\* C14, where it holds: the same of the sizes whose width and height are even.
C14_GenerateFillsEvenRectangle ==
    (/\ variant = "unbounded" /\ Generated
     /\ generated.size.width % 2 = 0 /\ generated.size.height % 2 = 0) =>
        /\ generated.life_chance = 10 =>
               Cardinality(seed) = generated.size.width * generated.size.height
        /\ generated.life_chance = 0 => seed = {}

\* a life_chance brought into [0.0, 1.0]
Clamped(life_chance) ==
    IF life_chance < 0 THEN 0 ELSE IF life_chance > 10 THEN 10 ELSE life_chance

\* C15: generate with a life_chance outside [0.0, 1.0] returns the universe it
\* returns for the value clamped, whatever is drawn: every position it draws
\* for is alive when life_chance > 1.0 and none is when life_chance < 0.0, in
\* both variants.
C15_LifeChanceClamped ==
    (Generated /\ generated.life_chance \notin 0..10) =>
        LET sz == generated.size
            life_chance == generated.life_chance
        IN  IF variant = "unbounded"
            THEN /\ \A draws \in [1..Len(generate_positions(sz)) -> Draws] :
                       generate(sz, Clamped(life_chance), draws) = seed
                 /\ life_chance > 10 =>
                       seed = ((0 - half(sz.width))..(half(sz.width) - 1))
                                 \X ((0 - half(sz.height))..(half(sz.height) - 1))
                 /\ life_chance < 0 => seed = {}
            ELSE /\ \A draws \in [1..(sz.width * sz.height) -> Draws] :
                       grid_generate(sz, Clamped(life_chance), draws) = seed
                 /\ life_chance > 10 => seed = full(sz)
                 /\ life_chance < 0 => seed = dead(sz)

\* C15 witness: a grid of 2 columns and 3 rows generated with life_chance 1.5,
\* every slot alive
C15_Witness ==
    /\ variant = "bounded" /\ Generated
    /\ generated.life_chance = 15
    /\ generated.size = [width |-> 2, height |-> 3]
    /\ grid = seed
    /\ Cardinality(LiveSlots(grid)) = 6

\* C16: a grid built by dead(size) or generate(size, _) has size.height rows
\* of size.width slots, its stored size is size and is what size() reads off
\* the grid, and tick and toggle_cells_at inside the grid keep all of it.
C16_DimensionsFixed ==
    (variant = "bounded" /\ generated.by \in {"dead", "generate"}) =>
        /\ size = generated.size
        /\ DOMAIN grid = 0..(generated.size.height - 1)
        /\ \A y \in DOMAIN grid : DOMAIN grid[y] = 0..(generated.size.width - 1)
        /\ grid_size(grid) = size

\* C16 witness: a generated grid of 2 columns and 3 rows, after a tick and two
\* toggles that changed it
C16_Witness ==
    /\ variant = "bounded" /\ Generated
    /\ generated.size = [width |-> 2, height |-> 3]
    /\ ticks = 1
    /\ Len(toggled) = 2
    /\ grid # seed
    /\ grid_size(grid) = [width |-> 2, height |-> 3]

\* The place in the list s of its first position outside the grid g, and
\* Len(s) + 1 if there is none
FirstOutside(s, g) ==
    LET outside == {i \in 1..Len(s) : s[i] \notin GridPositions(g)}
    IN  IF outside = {} THEN Len(s) + 1
        ELSE CHOOSE i \in outside : \A j \in outside : i <= j

\* C13: toggle_cells_at of the grid with a position of x >= width or
\* y >= height ends in an index-out-of-bounds panic. The position is not
\* wrapped onto a slot: the slots that differ from before the call are those
\* listed an odd number of times before the first position outside the grid,
\* and the grid keeps its dimensions.
C13_OutsideFails ==
    (/\ variant = "bounded" /\ returned.kind # "none"
     /\ \E i \in 1..Len(toggled) : toggled[i] \notin GridPositions(seed)) =>
        LET before == SubSeq(toggled, 1, FirstOutside(toggled, seed) - 1)
        IN  /\ returned.kind = "panic"
            /\ returned.message = "index out of bounds"
            /\ returned.index >= returned.len
            /\ grid_size(grid) = grid_size(seed)
            /\ \A p \in GridPositions(seed) :
                  (grid[p[2]][p[1]] # seed[p[2]][p[1]]) <=> (Occurrences(before, p) % 2 = 1)

\* C13 witness: the list (0,0), (width,0) on a grid of 2 columns: the first
\* slot is flipped, the second position makes the call panic
C13_Witness ==
    /\ variant = "bounded"
    /\ grid_size(seed).width = 2
    /\ toggled = <<<<0, 0>>, <<2, 0>>>>
    /\ returned.kind = "panic"
    /\ grid[0][0] # seed[0][0]
    /\ grid[0][1] = seed[0][1]

\* The 8 offsets (dx, dy) other than (0, 0)
Offsets == {d \in {0 - 1, 0, 1} \X {0 - 1, 0, 1} : d # <<0, 0>>}

\* The number of offsets (dx, dy) whose slot ((x + dx) mod width,
\* (y + dy) mod height) of the grid g is alive: the sum of the 8 states
TorusCount(g, pos) ==
    LET w == grid_size(g).width
        h == grid_size(g).height
    IN  Cardinality({d \in Offsets : g[(pos[2] + d[2]) % h][(pos[1] + d[1]) % w] = Alive})

\* C17: on every grid of width and height at least 1, live_neighbor_count at
\* every position is the sum over the 8 offsets of the state of the slot the
\* offset wraps to, widths and heights of 1 and 2 included.
C17_TorusCount ==
    variant = "bounded" =>
        \A pos \in GridPositions(grid) :
            grid_live_neighbor_count(grid, pos) = TorusCount(grid, pos)

\* C17, where it holds: the same on every grid of width and height at least 2.
C17_TorusCountFromTwo ==
    (variant = "bounded" /\ grid_size(grid).width >= 2 /\ grid_size(grid).height >= 2) =>
        \A pos \in GridPositions(grid) :
            grid_live_neighbor_count(grid, pos) = TorusCount(grid, pos)

\* C18: the universe system calls tick only when the timer has just finished
\* and the pause flag is not set; while the flag is set the live cells change
\* only by a toggle_cells_at, never by a tick.
C18_NoTickWhilePaused ==
    [][/\ ticks' # ticks => (~sim_config.paused /\ frame'.just_finished)
       /\ (sim_config.paused /\ cells' # cells) =>
              (toggled' # toggled /\ ticks' = ticks)]_vars

\* C18 witness: in a frame after the one of the press, the universe system
\* has run with the timer just finished and the flag set, and no tick was
\* made in the frame; the cells differ from the first ones by toggles only
C18_Witness ==
    /\ press.observed
    /\ press.frame < frame.n
    /\ "universe" \in frame.ran
    /\ frame.just_finished
    /\ sim_config.paused
    /\ ticks = 0
    /\ cells # seed

\* draw_cells found the button released, in its last call
ReleaseObserved == press.last = "released"

\* C19 as stated: from the frame in which draw_cells first finds the button
\* pressed the flag is set and no tick is made, so the ticks made are those
\* made before that frame began, whichever system runs first; when draw_cells
\* finds the button released the flag is cleared and the list emptied.
C19_PausedFromPressFrame ==
    /\ press.observed => (sim_config.paused /\ ticks = press.frame_ticks)
    /\ ReleaseObserved => (~sim_config.paused /\ drawn_positions = <<>>)

\* C19 amended: from the call in which draw_cells first finds the button
\* pressed until the call in which it finds it released, the flag is set and
\* no tick is made: the ticks made are those made before that call.
C19_PausedFromPressCall ==
    /\ press.observed => (sim_config.paused /\ ticks = press.ticks)
    /\ ReleaseObserved => (~sim_config.paused /\ drawn_positions = <<>>)

\* C19 witness: two frames after the one of the press the button is still
\* held, both systems have run with the timer just finished, and the only
\* tick is the one made in the frame of the press before draw_cells ran
C19_Witness ==
    /\ press.observed
    /\ frame.n = press.frame + 2
    /\ frame.ran = {"universe", "draw_cells"}
    /\ frame.just_finished
    /\ sim_config.paused
    /\ press.frame_ticks = 0
    /\ press.ticks = 1
    /\ ticks = 1

\* no position is in the list s twice
NoRepeats(s) == \A i, j \in 1..Len(s) : s[i] = s[j] => i = j

\* C20: since draw_cells last found the button released it has toggled no
\* position twice: the toggles made since are the last ones of all, and no
\* two of them are of the same position.
C20_OncePerPress ==
    /\ Len(press.toggled) <= Len(toggled)
    /\ press.toggled =
          SubSeq(toggled, Len(toggled) - Len(press.toggled) + 1, Len(toggled))
    /\ NoRepeats(press.toggled)
    /\ press.observed => press.toggled = drawn_positions

\* C20 witness: a position toggled in an earlier press is toggled again in
\* this one, once, and a later frame of this press with the cursor on it has
\* left it alone
C20_Witness ==
    /\ press.observed
    /\ Len(press.toggled) = 1
    /\ press.skipped >= 1
    /\ Occurrences(toggled, press.toggled[1]) = 2

\* The entities spawned and despawned by the commands issued so far, and
\* those the map stores
SpawnedEntities == {world.spawned[i].entity : i \in 1..Len(world.spawned)}
DespawnedEntities == {world.despawned[i] : i \in 1..Len(world.despawned)}
StoredEntities == {entity[p] : p \in DOMAIN entity}

\* The commands of the last call, and the cells it removed, added and kept
LastSpawned == SubSeq(world.spawned, world.spawned_before + 1, Len(world.spawned))
LastDespawned == SubSeq(world.despawned, world.despawned_before + 1, Len(world.despawned))
Died == (DOMAIN world.before) \ (DOMAIN entity)
Born == (DOMAIN entity) \ (DOMAIN world.before)
Survived == (DOMAIN world.before) \cap (DOMAIN entity)

\* C21: after any toggle_cells_at and tick calls the entities in the map are
\* pairwise distinct and are exactly those spawned and not despawned, none
\* despawned twice; a tick despawns the entity of every cell that dies, once,
\* spawns one entity for every cell born, which the map stores at the cell's
\* position, and leaves a surviving cell its entity.
C21_EntityBookkeeping ==
    /\ cells = DOMAIN entity
    /\ \A p, q \in DOMAIN entity : entity[p] = entity[q] => p = q
    /\ StoredEntities = SpawnedEntities \ DespawnedEntities
    /\ DespawnedEntities \subseteq SpawnedEntities
    /\ NoRepeats(world.despawned)
    /\ Cardinality(SpawnedEntities) = Len(world.spawned)
    /\ world.op = "tick" =>
          /\ Len(LastDespawned) = Cardinality(Died)
          /\ {LastDespawned[i] : i \in 1..Len(LastDespawned)} =
                {world.before[p] : p \in Died}
          /\ Len(LastSpawned) = Cardinality(Born)
          /\ {LastSpawned[i].pos : i \in 1..Len(LastSpawned)} = Born
          /\ \A i \in 1..Len(LastSpawned) :
                entity[LastSpawned[i].pos] = LastSpawned[i].entity
          /\ \A p \in Survived : entity[p] = world.before[p]

\* C21 witness: after a toggle and an earlier tick, a tick in which two cells
\* died, two were born and one survived
C21_Witness ==
    /\ world.op = "tick"
    /\ ticks = 2
    /\ toggled # <<>>
    /\ Cardinality(Died) >= 2
    /\ Cardinality(Born) >= 2
    /\ Survived # {}

\* The tick that follows the entities leaves the keys that tick leaves.
TickEntitiesKeys ==
    world.op = "tick" =>
        cells = tick(DOMAIN world.before, AN, AB,
                     CHOOSE order \in Orders(DOMAIN world.before) : TRUE)

\* The entity stored at p was spawned with the components of a cell and the
\* Position p.
Renderable(p) ==
    \E i \in 1..Len(world.spawned) :
        /\ world.spawned[i].entity = entity[p]
        /\ world.spawned[i].components = CellComponents
        /\ world.spawned[i].pos = p

\* C22: in every state of the unbounded universe, the one generate returns
\* included, the entity of every live cell carries the Position of the cell,
\* the sprite and the size, as spawn_cell_entity gives them.
C22_LiveCellsRenderable == \A p \in DOMAIN entity : Renderable(p)

\* C22, for the cells that generate did not make: those toggled on and those
\* born in a tick are renderable.
C22_RenderableUnlessGenerated ==
    \A p \in DOMAIN entity : entity[p] >= Cardinality(seed) => Renderable(p)

\* A render system has evaluated the size, or panicked doing so
SizeEvaluated == returned.kind \in {"size", "panic"}

\* C23: in every state of the universe, one in which all cells have died
\* included, the render systems compute bounds().with_padding(bound_padding)
\* .size() without overflow of an i32, and its width and height are not
\* negative.
C23_SizeWithoutOverflow ==
    SizeEvaluated =>
        /\ returned.kind = "size"
        /\ ~returned.overflow
        /\ returned.value.width >= 0
        /\ returned.value.height >= 0

\* C23, for a universe with a live cell: the size is computed without
\* overflow, and is the extent of the cells widened by the padding on each side
C23_SizeOfLiveCells ==
    (SizeEvaluated /\ returned.of # {}) =>
        /\ returned.kind = "size"
        /\ ~returned.overflow
        /\ \E p, q \in returned.of :
              /\ \A r \in returned.of : p[1] <= r[1] /\ r[1] <= q[1]
              /\ returned.value.width = (q[1] - p[1]) + 2 * bound_padding
        /\ \E p, q \in returned.of :
              /\ \A r \in returned.of : p[2] <= r[2] /\ r[2] <= q[2]
              /\ returned.value.height = (q[2] - p[2]) + 2 * bound_padding

====
